---- MODULE Spec2Model ----
(***************************************************************************)
(* Model of the draw-io server module (src/server/src/lib.rs): four        *)
(* SpacetimeDB tables (cursor, canvas_point, canvas_state,                  *)
(* saved_canvas_point) and the nine reducers that mutate them.  Every      *)
(* reducer runs as one transaction, so every reducer is one action.        *)
(*                                                                         *)
(* f32 fields hold small integers here; on those f32 subtraction,          *)
(* addition, multiplication and comparison are exact.                      *)
(***************************************************************************)
EXTENDS Integers, FiniteSets, Sequences, Bags, TLC

VARIABLES
    cursor,             \* table cursor: set of Cursor rows
    canvas_point,       \* table canvas_point: set of CanvasPoint rows
    canvas_state,       \* table canvas_state: set of CanvasState rows
    saved_canvas_point, \* table saved_canvas_point: set of SavedCanvasPoint rows
    seq_point,          \* auto_inc sequence of canvas_point.id (last value given)
    seq_state,          \* auto_inc sequence of canvas_state.id
    seq_saved,          \* auto_inc sequence of saved_canvas_point.id
    now,                \* the host clock behind ctx.timestamp
    conn,               \* history: identity -> its last connection event was a connect
    used,               \* history: per table, the ids of all rows ever inserted
    last,               \* history: the reducer call that ran last
    rt                  \* history: progress of a save / clear / load round trip

vars == <<cursor, canvas_point, canvas_state, saved_canvas_point,
          seq_point, seq_state, seq_saved, now, conn, used, last, rt>>

tables == <<cursor, canvas_point, canvas_state, saved_canvas_point>>

-----------------------------------------------------------------------------
(* Bounds of the exploration and input domains *)

MaxPointId == 2
MaxStateId == 2
MaxSavedId == 2
MaxTime == 1
MaxCoord == 1
MaxRadius == 1

Identities == {"alice", "bob"}
NoIdentity == "nobody"
Coords == 0..MaxCoord
Sizes == {0, 1}
Radii == (0 - MaxRadius)..MaxRadius
Colors == {"#000000", "#ff0000"}
Names == {"v1"}
StateIds == 1..(MaxStateId + 1)

\* identity_connected's defaults
DefaultColor == "#000000"
DefaultSize == 3

-----------------------------------------------------------------------------
(* Platform helpers *)

\* #[auto_inc]: a row inserted with id 0 gets the sequence's next value,
\* a row inserted with another id keeps it.
AutoInc(seq, id) == IF id = 0 THEN seq + 1 ELSE id

\* The orders in which an iterator may yield the rows of S.
Orders(S) == {f \in [S -> 1..Cardinality(S)] : \A a, b \in S : a # b => f[a] # f[b]}

\* ctx.db.cursor().identity().find(i)
FindCursor(i) == {c \in cursor : c.identity = i}

\* ctx.db.canvas_state().id().find(state_id)
FindState(state_id) == {s \in canvas_state : s.id = state_id}

\* The (x, y, color, size) of each row of a table, with multiplicity.
Attrs(r) == [x |-> r.x, y |-> r.y, color |-> r.color, size |-> r.size]

RECURSIVE AttrBag(_)
AttrBag(S) ==
    IF S = {} THEN EmptyBag
    ELSE LET r == CHOOSE r \in S : TRUE
         IN AttrBag(S \ {r}) (+) SetToBag({Attrs(r)})

\* A reducer call: its name, ctx.sender, its arguments, and (hit) the number
\* of rows it deleted.
NoCall == [op |-> "init", sender |-> NoIdentity, x |-> 0, y |-> 0, color |-> "",
           size |-> 0, radius |-> 0, name |-> "", state_id |-> 0, hit |-> 0]

Call(op, sender) == [NoCall EXCEPT !.op = op, !.sender = sender]

\* Round-trip history: phase 1 after save, 2 after the clear that follows it,
\* 3 after the load of the saved state that follows that; 0 otherwise.
NoTrip == [phase |-> 0, state_id |-> 0, bag |-> EmptyBag]

Init ==
    /\ cursor = {}
    /\ canvas_point = {}
    /\ canvas_state = {}
    /\ saved_canvas_point = {}
    /\ seq_point = 0
    /\ seq_state = 0
    /\ seq_saved = 0
    /\ now = 0
    /\ conn = [i \in Identities |-> FALSE]
    /\ used = [point |-> {}, state |-> {}, saved |-> {}]
    /\ last = NoCall
    /\ rt = NoTrip

-----------------------------------------------------------------------------
(* Cursor reducers *)

\* The row identity_connected inserts.
NewCursor(i, ts) ==
    [identity |-> i, x |-> 0, y |-> 0, color |-> DefaultColor,
     size |-> DefaultSize, last_updated |-> ts]

\* Mutant of InsertCursor: a cursor table without the unique key.
InsertCursorNoKey(row) == cursor \cup {row}

\* Mutant of InsertCursor: an insert that replaces the row of the same key.
InsertCursorReplace(row) == (cursor \ FindCursor(row.identity)) \cup {row}

\* cursor().insert(row): the primary key is unique, so inserting a second row
\* for the same identity panics and the transaction is rolled back.
InsertCursor(row) ==
    IF FindCursor(row.identity) = {} THEN cursor \cup {row} ELSE cursor

identity_connected(i, ts) ==
    /\ ts >= now
    /\ now' = ts
    /\ cursor' = InsertCursor(NewCursor(i, ts))
    /\ conn' = [conn EXCEPT ![i] = TRUE]
    /\ last' = Call("identity_connected", i)
    /\ rt' = NoTrip
    /\ UNCHANGED <<canvas_point, canvas_state, saved_canvas_point,
                   seq_point, seq_state, seq_saved, used>>

\* The table after identity_disconnected: find by key, delete what was found.
DisconnectedCursor(i) == cursor \ FindCursor(i)

identity_disconnected(i) ==
    /\ cursor' = DisconnectedCursor(i)
    /\ conn' = [conn EXCEPT ![i] = FALSE]
    /\ last' = [Call("identity_disconnected", i) EXCEPT
                    !.hit = Cardinality(FindCursor(i))]
    /\ rt' = NoTrip
    /\ UNCHANGED <<canvas_point, canvas_state, saved_canvas_point,
                   seq_point, seq_state, seq_saved, now, used>>

\* Mutant of UpdatedCursor: a merge that keeps the old brush color.
UpdatedCursorKeepsColor(c, x, y, color, size, ts) ==
    [identity |-> c.identity, x |-> x, y |-> y, color |-> c.color,
     size |-> size, last_updated |-> ts]

\* Cursor { x, y, color, size, last_updated: ctx.timestamp, ..cursor }
UpdatedCursor(c, x, y, color, size, ts) ==
    [identity |-> c.identity, x |-> x, y |-> y, color |-> color,
     size |-> size, last_updated |-> ts]

\* Mutant of CursorAfterUpdate: an upsert, writing the row found or not.
CursorUpsert(i, x, y, color, size, ts) ==
    (cursor \ FindCursor(i))
        \cup {[identity |-> i, x |-> x, y |-> y, color |-> color,
               size |-> size, last_updated |-> ts]}

\* The table after update_cursor: update by key if find returned a row.
CursorAfterUpdate(i, x, y, color, size, ts) ==
    (cursor \ FindCursor(i))
        \cup {UpdatedCursor(c, x, y, color, size, ts) : c \in FindCursor(i)}

update_cursor(i, x, y, color, size, ts) ==
    /\ ts >= now
    /\ now' = ts
    /\ cursor' = CursorAfterUpdate(i, x, y, color, size, ts)
    /\ last' = [Call("update_cursor", i) EXCEPT
                    !.x = x, !.y = y, !.color = color, !.size = size]
    /\ rt' = NoTrip
    /\ UNCHANGED <<canvas_point, canvas_state, saved_canvas_point,
                   seq_point, seq_state, seq_saved, conn, used>>

-----------------------------------------------------------------------------
(* Canvas reducers *)

\* The row add_drawing_point hands to insert (id 0: auto-incremented).
DrawnPoint(i, x, y, color, size, ts) ==
    [id |-> 0, identity |-> i, x |-> x, y |-> y, color |-> color,
     size |-> size, timestamp |-> ts]

add_drawing_point(i, x, y, color, size, ts) ==
    LET row == DrawnPoint(i, x, y, color, size, ts)
        id == AutoInc(seq_point, row.id)
    IN  /\ ts >= now
        /\ now' = ts
        /\ canvas_point' = canvas_point \cup {[row EXCEPT !.id = id]}
        /\ seq_point' = IF row.id = 0 THEN id ELSE seq_point
        /\ used' = [used EXCEPT !.point = @ \cup {id}]
        /\ last' = [Call("add_drawing_point", i) EXCEPT
                        !.x = x, !.y = y, !.color = color, !.size = size]
        /\ rt' = NoTrip
        /\ UNCHANGED <<cursor, canvas_state, saved_canvas_point,
                       seq_state, seq_saved, conn>>

\* Mutant of EraseHit: strict comparison, touching circles do not overlap.
EraseHitStrict(point, x, y, radius) ==
    LET dx == point.x - x
        dy == point.y - y
        dist_sq == dx * dx + dy * dy
        combined_radius == radius + point.size
    IN  dist_sq < combined_radius * combined_radius

\* Mutant of EraseHit: the point's own brush size is ignored.
EraseHitCenter(point, x, y, radius) ==
    LET dx == point.x - x
        dy == point.y - y
        dist_sq == dx * dx + dy * dy
    IN  dist_sq <= radius * radius

\* The filter closure of erase_points.
EraseHit(point, x, y, radius) ==
    LET dx == point.x - x
        dy == point.y - y
        dist_sq == dx * dx + dy * dy
        combined_radius == radius + point.size
    IN  dist_sq <= combined_radius * combined_radius

\* points_to_erase: collected from the table before any row is deleted.
PointsToErase(x, y, radius) == {p \in canvas_point : EraseHit(p, x, y, radius)}

\* The body of erase_points as a function of the table it is committed on:
\* the rows of points that the filter does not select.
Erased(points, x, y, radius) ==
    points \ {p \in points : EraseHit(p, x, y, radius)}

erase_points(x, y, radius) ==
    /\ canvas_point' = Erased(canvas_point, x, y, radius)
    /\ last' = [Call("erase_points", NoIdentity) EXCEPT
                    !.x = x, !.y = y, !.radius = radius,
                    !.hit = Cardinality(PointsToErase(x, y, radius))]
    /\ rt' = NoTrip
    /\ UNCHANGED <<cursor, canvas_state, saved_canvas_point,
                   seq_point, seq_state, seq_saved, now, conn, used>>

\* Mutant of ClearedCanvas: the iterator ends after the first delete.
ClearedCanvasFirstOnly ==
    IF canvas_point = {} THEN {}
    ELSE canvas_point \ {CHOOSE p \in canvas_point :
                            \A q \in canvas_point : p.id <= q.id}

\* The loop "for point in canvas_point().iter() { delete(point) }".
ClearedCanvas == canvas_point \ {p \in canvas_point : TRUE}

clear_canvas ==
    /\ canvas_point' = ClearedCanvas
    /\ last' = [Call("clear_canvas", NoIdentity) EXCEPT
                    !.hit = Cardinality(canvas_point)]
    /\ rt' = IF rt.phase = 1 THEN [rt EXCEPT !.phase = 2] ELSE NoTrip
    /\ UNCHANGED <<cursor, canvas_state, saved_canvas_point,
                   seq_point, seq_state, seq_saved, now, conn, used>>

-----------------------------------------------------------------------------
(* Snapshot reducers *)

\* Mutant of NewState: the creation time is the epoch, not ctx.timestamp.
NewStateEpoch(i, name, ts) ==
    [id |-> 0, name |-> name, created_by |-> i, created_at |-> 0]

\* Mutant of NewState: the id is counted from the rows, not auto-incremented.
NewStateCounted(i, name, ts) ==
    [id |-> Cardinality(canvas_state) + 1, name |-> name, created_by |-> i,
     created_at |-> ts]

\* The CanvasState row save_canvas_state hands to insert (id 0: auto-incremented).
NewState(i, name, ts) ==
    [id |-> 0, name |-> name, created_by |-> i, created_at |-> ts]

\* Mutant of SavedPoint: x and y swapped in the copy.
SavedPointSwapped(point, state_id) ==
    [id |-> 0, state_id |-> state_id, x |-> point.y, y |-> point.x,
     color |-> point.color, size |-> point.size]

\* The SavedCanvasPoint row save_canvas_state hands to insert for one live point.
SavedPoint(point, state_id) ==
    [id |-> 0, state_id |-> state_id, x |-> point.x, y |-> point.y,
     color |-> point.color, size |-> point.size]

save_canvas_state(i, name, ts) ==
    LET row == NewState(i, name, ts)
        state == [row EXCEPT !.id = AutoInc(seq_state, row.id)]
    IN  /\ ts >= now
        /\ now' = ts
        /\ canvas_state' = canvas_state \cup {state}
        /\ seq_state' = IF row.id = 0 THEN state.id ELSE seq_state
        \* the k-th point the iterator yields gets the k-th next id
        /\ \E ord \in Orders(canvas_point) :
              LET new == {[SavedPoint(p, state.id) EXCEPT
                              !.id = AutoInc(seq_saved + ord[p] - 1, @)] :
                          p \in canvas_point}
              IN  /\ saved_canvas_point' = saved_canvas_point \cup new
                  /\ used' = [used EXCEPT !.state = @ \cup {state.id},
                                          !.saved = @ \cup {r.id : r \in new}]
        /\ seq_saved' = seq_saved + Cardinality(canvas_point)
        /\ last' = [Call("save_canvas_state", i) EXCEPT
                        !.name = name, !.state_id = state.id]
        /\ rt' = [phase |-> 1, state_id |-> state.id, bag |-> AttrBag(canvas_point)]
        /\ UNCHANGED <<cursor, canvas_point, seq_point, conn>>

\* saved_points of load_canvas_state: the rows whose state_id matches, read
\* only when find(state_id) returned a state.
SavedPointsOf(state_id) ==
    IF FindState(state_id) = {} THEN {}
    ELSE {p \in saved_canvas_point : p.state_id = state_id}

\* Mutant of RestoredPoint: the saved point's id is kept instead of 0.
RestoredPointKeepsId(saved_point, i, ts) ==
    [id |-> saved_point.id, identity |-> i, x |-> saved_point.x, y |-> saved_point.y,
     color |-> saved_point.color, size |-> saved_point.size, timestamp |-> ts]

\* Mutant of RestoredPoint: the timestamp is the epoch, not ctx.timestamp.
RestoredPointEpoch(saved_point, i, ts) ==
    [id |-> 0, identity |-> i, x |-> saved_point.x, y |-> saved_point.y,
     color |-> saved_point.color, size |-> saved_point.size, timestamp |-> 0]

\* The CanvasPoint row load_canvas_state hands to insert for one saved point.
RestoredPoint(saved_point, i, ts) ==
    [id |-> 0, identity |-> i, x |-> saved_point.x, y |-> saved_point.y,
     color |-> saved_point.color, size |-> saved_point.size, timestamp |-> ts]

load_canvas_state(i, state_id, ts) ==
    LET saved_points == SavedPointsOf(state_id)
    IN  /\ ts >= now
        /\ now' = ts
        /\ \E ord \in Orders(saved_points) :
              LET new == {[RestoredPoint(p, i, ts) EXCEPT
                              !.id = AutoInc(seq_point + ord[p] - 1, @)] :
                          p \in saved_points}
              IN  /\ canvas_point' = ClearedCanvas \cup new
                  /\ used' = [used EXCEPT !.point = @ \cup {r.id : r \in new}]
        /\ seq_point' = seq_point + Cardinality(saved_points)
        /\ last' = [Call("load_canvas_state", i) EXCEPT
                        !.state_id = state_id, !.hit = Cardinality(canvas_point)]
        /\ rt' = IF rt.phase = 2 /\ rt.state_id = state_id
                 THEN [rt EXCEPT !.phase = 3] ELSE NoTrip
        /\ UNCHANGED <<cursor, canvas_state, saved_canvas_point,
                       seq_state, seq_saved, conn>>

\* Mutant of MayDelete: the creator check is missing.
MayDeleteAnyone(i, state_id) == FindState(state_id) # {}

\* Whether delete_canvas_state passes both of its checks.
MayDelete(i, state_id) ==
    \E state \in FindState(state_id) : state.created_by = i

\* Mutant of PointsToDelete: the state_id filter is missing.
PointsToDeleteAll(state_id) == saved_canvas_point

\* Mutant of PointsToDelete: the saved points are left behind.
PointsToDeleteNone(state_id) == {}

\* points_to_delete of delete_canvas_state.
PointsToDelete(state_id) == {p \in saved_canvas_point : p.state_id = state_id}

delete_canvas_state(i, state_id) ==
    /\ IF MayDelete(i, state_id)
       THEN /\ saved_canvas_point' = saved_canvas_point \ PointsToDelete(state_id)
            /\ canvas_state' = canvas_state \ FindState(state_id)
       ELSE UNCHANGED <<saved_canvas_point, canvas_state>>
    /\ last' = [Call("delete_canvas_state", i) EXCEPT
                    !.state_id = state_id,
                    !.hit = IF MayDelete(i, state_id)
                            THEN Cardinality(PointsToDelete(state_id)) + 1 ELSE 0]
    /\ rt' = NoTrip
    /\ UNCHANGED <<cursor, canvas_point, seq_point, seq_state, seq_saved,
                   now, conn, used>>

-----------------------------------------------------------------------------
(* Harness: the reducer calls the host may make, over given input sets.
   I: senders, T: timestamps the host clock may show, other sets: arguments.
   The id sequences and the clock are capped to keep the exploration finite. *)

\* the clock stands still or advances by one between two calls
Ticks == {t \in now..(now + 1) : t <= MaxTime}
\* a clock too coarse to advance
Frozen == {now}

Connect(I, T) == \E i \in I, ts \in T : identity_connected(i, ts)

Disconnect(I) == \E i \in I : identity_disconnected(i)

UpdateCursor(I, M, T) ==
    \E i \in I, m \in M, ts \in T :
        update_cursor(i, m.x, m.y, m.color, m.size, ts)

\* D: pairs of an artist and a brush stroke
AddPoint(D, T, cap) ==
    /\ seq_point < cap
    /\ \E d \in D, ts \in T :
          add_drawing_point(d[1], d[2].x, d[2].y, d[2].color, d[2].size, ts)

\* AddPoint while fewer than live points are on the canvas
AddPointLive(D, T, cap, live) ==
    /\ Cardinality(canvas_point) < live
    /\ AddPoint(D, T, cap)

Erase(E) == \E e \in E : erase_points(e.x, e.y, e.radius)

Clear == clear_canvas

Save(I, N, T, capState, capSaved) ==
    /\ seq_state < capState
    /\ seq_saved + Cardinality(canvas_point) <= capSaved
    /\ \E i \in I, n \in N, ts \in T : save_canvas_state(i, n, ts)

Load(I, S, T, cap) ==
    \E i \in I, sid \in S, ts \in T :
        /\ seq_point + Cardinality(SavedPointsOf(sid)) <= cap
        /\ load_canvas_state(i, sid, ts)

Delete(I, S) == \E i \in I, sid \in S : delete_canvas_state(i, sid)

\* sample brush strokes and erasers
StrokeA == [x |-> 0, y |-> 0, color |-> "#000000", size |-> 0]
StrokeB == [x |-> 2, y |-> 1, color |-> "#ff0000", size |-> 1]
\* one eraser touching StrokeA alone, one touching StrokeB alone
Erasers == {[x |-> 0, y |-> 0, radius |-> 0], [x |-> 2, y |-> 1, radius |-> 0]}

-----------------------------------------------------------------------------
(* SpecCursor: the cursor reducers on every identity and sample moves, with
   one drawn and saved point so that the other tables are not empty. *)

CursorFill == 1
Moves == {[x |-> 2, y |-> 1, color |-> "#ff0000", size |-> 1],
          [x |-> 1, y |-> 2, color |-> "#000000", size |-> 5]}

NextCursor ==
    \/ Connect(Identities, Ticks)
    \/ Disconnect(Identities)
    \/ UpdateCursor(Identities, Moves, Ticks)
    \/ AddPoint({<<"alice", StrokeB>>}, Frozen, CursorFill)
    \/ Save({"alice"}, Names, Frozen, CursorFill, CursorFill)

SpecCursor == Init /\ [][NextCursor]_vars

-----------------------------------------------------------------------------
(* SpecErase: drawing and erasing over a grid of positions, brush sizes and
   eraser radii (negative radii included: no input is validated). *)

EraseMaxPointId == 2
GridStrokes == {[x |-> x, y |-> y, color |-> DefaultColor, size |-> s] :
                    x \in Coords, y \in Coords, s \in Sizes}
GridErasers == {[x |-> x, y |-> y, radius |-> r] :
                    x \in Coords, y \in Coords, r \in Radii}

NextErase ==
    \/ AddPoint({"alice"} \X GridStrokes, Frozen, EraseMaxPointId)
    \/ Erase(GridErasers)
    \/ Clear

SpecErase == Init /\ [][NextErase]_vars

-----------------------------------------------------------------------------
(* SpecTrip: drawing, erasing, saving one snapshot and loading. *)

TripMaxPointId == 4
TripMaxLive == 2
TripMaxSavedId == 2
TripMaxStateId == 1
Drawings == {<<"alice", StrokeA>>, <<"bob", StrokeB>>}

NextTrip ==
    \/ AddPointLive(Drawings, Ticks, TripMaxPointId, TripMaxLive)
    \/ Erase(Erasers)
    \/ Clear
    \/ Save({"alice"}, Names, Ticks, TripMaxStateId, TripMaxSavedId)
    \/ Load(Identities, StateIds, Ticks, TripMaxPointId)

SpecTrip == Init /\ [][NextTrip]_vars

-----------------------------------------------------------------------------
(* SpecRace: the erase race. *)

\* The erase race: drawing and erasing over strokes and erasers chosen so
\* that the regions of different erasers overlap, with and without the
\* brush size deciding, and with a negative radius.
RaceMaxPointId == 3
RaceStrokes == {StrokeA, StrokeB,
                [x |-> 1, y |-> 0, color |-> "#ff0000", size |-> 0],
                [x |-> 1, y |-> 1, color |-> "#000000", size |-> 1]}
RaceErasers == {[x |-> 0, y |-> 0, radius |-> 1],
                [x |-> 1, y |-> 1, radius |-> 0],
                [x |-> 2, y |-> 1, radius |-> 1],
                [x |-> 1, y |-> 0, radius |-> 0 - 1],
                [x |-> 3, y |-> 0, radius |-> 1]}

NextRace ==
    \/ AddPoint(Identities \X RaceStrokes, Frozen, RaceMaxPointId)
    \/ Erase(RaceErasers)

SpecRace == Init /\ [][NextRace]_vars

-----------------------------------------------------------------------------
(* SpecSave: drawing, clearing and saving under either identity, two names
   and an advancing clock. *)

SaveMaxPointId == 2
SaveMaxStateId == 2
SaveMaxSavedId == 3
SaveNames == {"v1", "v2"}

NextSave ==
    \/ AddPoint(Drawings, Ticks, SaveMaxPointId)
    \/ Clear
    \/ Save(Identities, SaveNames, Ticks, SaveMaxStateId, SaveMaxSavedId)

SpecSave == Init /\ [][NextSave]_vars

-----------------------------------------------------------------------------
(* Spec: the whole module, all nine reducers, with a clock too coarse to
   advance: alice connects, moves and draws, bob loads, both save and delete. *)

Next ==
    \/ Connect({"alice"}, Frozen)
    \/ Disconnect({"alice"})
    \/ UpdateCursor({"alice"}, {StrokeB}, Frozen)
    \/ AddPoint({<<"alice", StrokeB>>}, Frozen, MaxPointId)
    \/ Erase({[x |-> 2, y |-> 1, radius |-> 0]})
    \/ Clear
    \/ Save(Identities, Names, Frozen, MaxStateId, MaxSavedId)
    \/ Load({"bob"}, StateIds, Frozen, MaxPointId)
    \/ Delete(Identities, StateIds)

Spec == Init /\ [][Next]_vars

-----------------------------------------------------------------------------
(* Claims *)

\* C1 (SpecCursor): in every reachable state an identity has exactly one
\* Cursor row if its last connection event was a connect and none otherwise,
\* and every Cursor row belongs to such an identity.
C1_CursorIffConnected ==
    /\ \A i \in Identities :
          Cardinality(FindCursor(i)) = IF conn[i] THEN 1 ELSE 0
    /\ \A c \in cursor : c.identity \in Identities /\ conn[c.identity]

\* C1 witness: a disconnect has just removed an identity's row while another
\* identity is connected and has its row.
C1_Witness ==
    /\ last.op = "identity_disconnected"
    /\ last.hit = 1
    /\ FindCursor(last.sender) = {}
    /\ \E j \in Identities : conn[j] /\ Cardinality(FindCursor(j)) = 1

\* C10 (SpecCursor): an update_cursor call by an identity without a Cursor
\* row leaves all four tables and the id sequences as they were.
C10_UpdateWithoutCursorIsNoOp ==
    [][(last'.op = "update_cursor" /\ FindCursor(last'.sender) = {})
          => UNCHANGED <<tables, seq_point, seq_state, seq_saved>>]_vars

\* C10 witness: update_cursor has just run for an identity without a row,
\* while another identity has a row and the other tables hold rows.
C10_Witness ==
    /\ last.op = "update_cursor"
    /\ FindCursor(last.sender) = {}
    /\ cursor # {}
    /\ canvas_point # {}
    /\ canvas_state # {}
    /\ saved_canvas_point # {}

\* The bound of the erase claim: squared distance against the squared sum.
InBound(p, x, y, r) ==
    (p.x - x) * (p.x - x) + (p.y - y) * (p.y - y) <= (r + p.size) * (r + p.size)

\* C2 (SpecErase): erase_points(x, y, r) removes exactly the points with
\* (p.x-x)^2 + (p.y-y)^2 <= (r+p.size)^2; the other rows stay as they were
\* and no row is added.
C2_EraseRemovesExactlyTheBound ==
    [][last'.op = "erase_points"
          => canvas_point' = {p \in canvas_point :
                                 ~InBound(p, last'.x, last'.y, last'.radius)}]_vars

\* C2 witness: an erase has just removed at least one point and left at
\* least one point, which is outside the bound.
C2_Witness ==
    /\ last.op = "erase_points"
    /\ last.hit >= 1
    /\ \E p \in canvas_point : ~InBound(p, last.x, last.y, last.radius)

\* Euclidean distance from (x, y) to the point is at most r + p.size: a
\* distance is never at most a negative number.
WithinDistance(p, x, y, r) == r + p.size >= 0 /\ InBound(p, x, y, r)

\* C3 (SpecErase), as claimed: erase_points(x, y, radius) removes exactly the
\* points whose Euclidean distance from (x, y) is at most radius + p.size,
\* also when that sum is negative.
C3_EraseByEuclideanDistance ==
    [][last'.op = "erase_points"
          => canvas_point' = {p \in canvas_point :
                                 ~WithinDistance(p, last'.x, last'.y, last'.radius)}]_vars

\* C4 (SpecTrip): after save, clear and load of the saved state in direct
\* succession, the live points carry exactly the (x, y, color, size) of the
\* points present at the save, with multiplicity.
C4_RoundTrip == rt.phase = 3 => AttrBag(canvas_point) = rt.bag

\* C4 witness: a round trip has just restored both sample strokes, and the
\* restored copy of bob's stroke is owned by a loader other than bob.
C4_Witness ==
    /\ rt.phase = 3
    /\ last.op = "load_canvas_state"
    /\ {Attrs(p) : p \in canvas_point} = {StrokeA, StrokeB}
    /\ \E p \in canvas_point : Attrs(p) = StrokeB /\ p.identity = "alice"

\* Whether the call is a delete of state s by its creator.
DeleteByCreator(call, s) ==
    /\ call.op = "delete_canvas_state"
    /\ call.state_id = s.id
    /\ call.sender = s.created_by

\* C5 (Spec): whatever reducer runs, a CanvasState row and the set of
\* SavedCanvasPoint rows tagged with its id stay as they are, unless the
\* call is a delete of that state by its creator.
C5_SnapshotImmutable ==
    [][\A s \in canvas_state :
          ~DeleteByCreator(last', s)
              => /\ {t \in canvas_state' : t.id = s.id} = {s}
                 /\ {p \in saved_canvas_point' : p.state_id = s.id}
                        = {p \in saved_canvas_point : p.state_id = s.id}]_vars

\* C5 witness: an erase has just emptied the live canvas while a saved
\* state still holds saved points.
C5_Witness ==
    /\ last.op = "erase_points"
    /\ last.hit >= 1
    /\ canvas_point = {}
    /\ \E s \in canvas_state : \E p \in saved_canvas_point : p.state_id = s.id

\* C6 (Spec): delete_canvas_state for a state that does not exist, or by an
\* identity that did not create it, changes none of the four tables.
C6_DeleteDeniedIsNoOp ==
    [][(/\ last'.op = "delete_canvas_state"
        /\ ~ \E s \in canvas_state : DeleteByCreator(last', s))
          => UNCHANGED tables]_vars

\* C6 witness: a delete has just been tried by an identity other than the
\* creator of an existing state with saved points; all tables hold rows.
C6_Witness ==
    /\ last.op = "delete_canvas_state"
    /\ \E s \in canvas_state :
          /\ s.id = last.state_id
          /\ s.created_by # last.sender
          /\ \E p \in saved_canvas_point : p.state_id = s.id
    /\ cursor # {}
    /\ canvas_point # {}

\* C7 (Spec): delete_canvas_state by the creator of an existing state
\* removes that state's row and the saved points tagged with its id, and
\* changes nothing else.
C7_DeleteByCreatorRemovesState ==
    [][(/\ last'.op = "delete_canvas_state"
        /\ \E s \in canvas_state : DeleteByCreator(last', s))
          => /\ canvas_state' = {s \in canvas_state : s.id # last'.state_id}
             /\ saved_canvas_point'
                   = {p \in saved_canvas_point : p.state_id # last'.state_id}
             /\ UNCHANGED <<cursor, canvas_point>>]_vars

\* C7 witness: a delete has just removed a state and a saved point of it,
\* while another state with a saved point, a live point and a cursor remain.
C7_Witness ==
    /\ last.op = "delete_canvas_state"
    /\ last.hit >= 2
    /\ FindState(last.state_id) = {}
    /\ \E s \in canvas_state : \E p \in saved_canvas_point : p.state_id = s.id
    /\ cursor # {}
    /\ canvas_point # {}

\* C8 (Spec): load_canvas_state with an id no CanvasState row has leaves
\* the live canvas empty and changes no saved row.
C8_LoadMissingStateClears ==
    [][(last'.op = "load_canvas_state" /\ FindState(last'.state_id) = {})
          => /\ canvas_point' = {}
             /\ UNCHANGED <<canvas_state, saved_canvas_point>>]_vars

\* C8 witness: a load of the id of a deleted state has just wiped a canvas
\* that held points.
C8_Witness ==
    /\ last.op = "load_canvas_state"
    /\ last.hit >= 1
    /\ last.state_id \in used.state
    /\ FindState(last.state_id) = {}
    /\ canvas_point = {}

\* C9 (Spec): in each of canvas_point, canvas_state and saved_canvas_point,
\* a row that appears has an id greater than the id of every row ever
\* inserted into that table before.
C9_IdsNeverReused ==
    [][/\ \A r \in canvas_point' \ canvas_point :
             \A u \in used.point : r.id > u
       /\ \A r \in canvas_state' \ canvas_state :
             \A u \in used.state : r.id > u
       /\ \A r \in saved_canvas_point' \ saved_canvas_point :
             \A u \in used.saved : r.id > u]_vars

\* C9 witness: a load has just inserted a point after earlier points and an
\* earlier saved state, with its saved point, were deleted.
C9_Witness ==
    /\ last.op = "load_canvas_state"
    /\ canvas_point # {}
    /\ \E u \in used.point : \A p \in canvas_point : p.id # u
    /\ \E u \in used.state : \A s \in canvas_state : s.id # u
    /\ \E u \in used.saved : \A p \in saved_canvas_point : p.id # u

\* C12 (SpecTrip): after load_canvas_state of an existing state by i at time
\* now, the canvas holds one point per saved point of that state and no
\* other (same count, same (x, y, color, size) with multiplicity), each
\* owned by i, stamped now, with an id of its own above every point id
\* used before.
C12_LoadRestoresSavedPoints ==
    [][(last'.op = "load_canvas_state" /\ FindState(last'.state_id) # {})
          => LET saved_points == {p \in saved_canvas_point :
                                     p.state_id = last'.state_id}
             IN  /\ Cardinality(canvas_point') = Cardinality(saved_points)
                 /\ AttrBag(canvas_point') = AttrBag(saved_points)
                 /\ \A r \in canvas_point' :
                       /\ r.identity = last'.sender
                       /\ r.timestamp = now'
                       /\ \A u \in used.point : r.id > u
                       /\ \A q \in canvas_point' : q.id = r.id => q = r]_vars

\* C12 witness: bob has just loaded, at time 1, a state saved at time 0 that
\* holds two copies of alice's stroke; both copies are on the canvas.
C12_Witness ==
    /\ last.op = "load_canvas_state"
    /\ last.sender = "bob"
    /\ now = 1
    /\ \E s \in FindState(last.state_id) : s.created_at = 0
    /\ Cardinality(canvas_point) = 2
    /\ \A p \in canvas_point :
          Attrs(p) = StrokeA /\ p.identity = "bob" /\ p.timestamp = 1

\* C14 (SpecCursor): identity_connected for an identity that has a Cursor
\* row changes no table: the row keeps its values and no second row appears.
C14_ConnectTwiceIsNoOp ==
    [][(last'.op = "identity_connected" /\ FindCursor(last'.sender) # {})
          => UNCHANGED <<tables, seq_point, seq_state, seq_saved>>]_vars

\* C14 witness: a connect has just run for an identity whose row holds a
\* moved cursor written before the clock advanced; the row is still there.
C14_Witness ==
    /\ last.op = "identity_connected"
    /\ \E c \in FindCursor(last.sender) : c.x # 0 /\ c.last_updated < now
    /\ canvas_point # {}
    /\ saved_canvas_point # {}

\* C19 (SpecCursor): update_cursor by an identity with a Cursor row replaces
\* that row by (identity, the given x, y, color, size, the call's timestamp),
\* keeps every other Cursor row and the number of rows, and changes no
\* other table.
C19_UpdateOverwritesCursor ==
    [][(last'.op = "update_cursor" /\ FindCursor(last'.sender) # {})
          => /\ cursor' = {c \in cursor : c.identity # last'.sender}
                   \cup {[identity |-> last'.sender, x |-> last'.x,
                          y |-> last'.y, color |-> last'.color,
                          size |-> last'.size, last_updated |-> now']}
             /\ Cardinality(cursor') = Cardinality(cursor)
             /\ UNCHANGED <<canvas_point, canvas_state, saved_canvas_point>>]_vars

\* C19 witness: an update at time 1 has just written the sender's row with
\* the second sample move, while the other identity's row holds other values.
C19_Witness ==
    /\ last.op = "update_cursor"
    /\ now = 1
    /\ \E c \in FindCursor(last.sender) :
          /\ c.x = 1 /\ c.y = 2 /\ c.color = "#000000" /\ c.size = 5
          /\ c.last_updated = 1
    /\ \E c \in cursor : c.identity # last.sender /\ c.color = "#ff0000"
    /\ canvas_point # {}

\* C13 (SpecSave): save_canvas_state(name) by i at time now adds one
\* CanvasState row (a new id, name, created_by = i, created_at = now) and one
\* SavedCanvasPoint per live point, tagged with the new id and copying
\* (x, y, color, size) with multiplicity; the live canvas, the earlier states
\* and the earlier saved points stay as they were.
C13_SaveCopiesCanvas ==
    [][last'.op = "save_canvas_state"
          => LET new_states == canvas_state' \ canvas_state
                 new_points == saved_canvas_point' \ saved_canvas_point
             IN  /\ canvas_state \subseteq canvas_state'
                 /\ saved_canvas_point \subseteq saved_canvas_point'
                 /\ Cardinality(new_states) = 1
                 /\ \A s \in new_states :
                       /\ s.name = last'.name
                       /\ s.created_by = last'.sender
                       /\ s.created_at = now'
                       /\ \A t \in canvas_state : t.id # s.id
                       /\ \A p \in saved_canvas_point : p.state_id # s.id
                       /\ \A p \in new_points : p.state_id = s.id
                 /\ Cardinality(new_points) = Cardinality(canvas_point)
                 /\ AttrBag(new_points) = AttrBag(canvas_point)
                 /\ \A p \in new_points :
                       \A q \in saved_canvas_point' : q.id = p.id => q = p
                 /\ UNCHANGED <<canvas_point, cursor>>]_vars

\* C13 witness: bob has just saved, at time 1 and under the second name, a
\* canvas of both sample strokes, while an earlier state of alice with a
\* saved point exists.
C13_Witness ==
    /\ last.op = "save_canvas_state"
    /\ last.sender = "bob"
    /\ last.name = "v2"
    /\ now = 1
    /\ \E s \in FindState(last.state_id) :
          /\ s.name = "v2" /\ s.created_by = "bob" /\ s.created_at = 1
          /\ {Attrs(p) : p \in {q \in saved_canvas_point : q.state_id = s.id}}
                = {StrokeA, StrokeB}
    /\ \E s \in canvas_state :
          /\ s.id # last.state_id /\ s.created_by = "alice"
          /\ \E p \in saved_canvas_point : p.state_id = s.id
    /\ Cardinality(canvas_point) = 2

\* C15 (Spec): in every reachable state each SavedCanvasPoint row has the
\* state_id of a CanvasState row that exists.
C15_NoOrphanSavedPoint ==
    \A p \in saved_canvas_point : \E s \in canvas_state : s.id = p.state_id

\* C15 witness: a delete has just removed a state with a saved point, a
\* saved point of another state remains, and saved points were deleted.
C15_Witness ==
    /\ last.op = "delete_canvas_state"
    /\ last.hit >= 2
    /\ saved_canvas_point # {}
    /\ \E u \in used.saved : \A p \in saved_canvas_point : p.id # u
    /\ \A p \in saved_canvas_point : p.state_id # last.state_id

\* The ids of states that were created and are gone.
DeletedStateIds == {u \in used.state : FindState(u) = {}}

\* C16 (Spec): once a state is deleted its id stays without a row whatever
\* runs later, so a load of that id restores nothing (the canvas ends empty)
\* and a delete of that id changes no table.
C16_DeletedIdStaysDead ==
    [][/\ \A u \in DeletedStateIds : \A s \in canvas_state' : s.id # u
       /\ (last'.op = "load_canvas_state" /\ last'.state_id \in DeletedStateIds)
             => canvas_point' = {}
       /\ (last'.op = "delete_canvas_state" /\ last'.state_id \in DeletedStateIds)
             => UNCHANGED tables]_vars

\* C16 witness: a load of a deleted state's id has just emptied a canvas
\* that held points, after a later save created a state with saved points.
C16_Witness ==
    /\ last.op = "load_canvas_state"
    /\ last.state_id \in DeletedStateIds
    /\ last.hit >= 1
    /\ canvas_point = {}
    /\ \E s \in canvas_state :
          /\ s.id > last.state_id
          /\ \E p \in saved_canvas_point : p.state_id = s.id

\* C17 (SpecRace): an erase that has just been committed and any second
\* erase give the same table in either commit order, and that table holds
\* no point within the bound of either.
C17_ErasesCommute ==
    [][last'.op = "erase_points"
          => \A e \in RaceErasers :
                LET first == Erased(canvas_point', e.x, e.y, e.radius)
                    second == Erased(Erased(canvas_point, e.x, e.y, e.radius),
                                     last'.x, last'.y, last'.radius)
                IN  /\ first = second
                    /\ first \subseteq canvas_point
                    /\ \A p \in first :
                          /\ ~InBound(p, e.x, e.y, e.radius)
                          /\ ~InBound(p, last'.x, last'.y, last'.radius)]_vars

\* C17 witness: an erase has just removed a point and left a point that
\* another erase, with other arguments, would remove.
C17_Witness ==
    /\ last.op = "erase_points"
    /\ last.hit >= 1
    /\ canvas_point # {}
    /\ \E e \in RaceErasers :
          /\ <<e.x, e.y, e.radius>> # <<last.x, last.y, last.radius>>
          /\ Erased(canvas_point, e.x, e.y, e.radius) # canvas_point

\* C20 (Spec): clear_canvas leaves the canvas empty whatever it held, a
\* clear of the result changes nothing more, and the cursor, canvas_state
\* and saved_canvas_point tables stay as they were.
C20_ClearEmptiesCanvas ==
    [][last'.op = "clear_canvas"
          => /\ canvas_point' = {}
             /\ ClearedCanvas' = canvas_point'
             /\ canvas_point = {} => UNCHANGED tables
             /\ UNCHANGED <<cursor, canvas_state, saved_canvas_point>>]_vars

\* C20 witness: a clear has just deleted two points while a cursor, a state
\* and a saved point exist.
C20_Witness ==
    /\ last.op = "clear_canvas"
    /\ last.hit >= 2
    /\ canvas_point = {}
    /\ cursor # {}
    /\ canvas_state # {}
    /\ saved_canvas_point # {}

====
